---- MODULE Spec2Model ----
(***************************************************************************)
(* A model of the two plotting scripts of the repository:                  *)
(*   GRS_PA01/MT25077_Part_D_plot.py   CSV -> six figures -> one PDF       *)
(*   GRS_PA02/MT25077_Part_D_Plots.py  hardcoded data -> four PNG files    *)
(* One behaviour is one run of one of the two scripts.                     *)
(***************************************************************************)
EXTENDS Integers, Sequences, FiniteSets, TLC

(***************************************************************************)
(* Bounds of the enumerated inputs.                                        *)
(***************************************************************************)
\* The largest number of data rows of an input CSV file.
MaxRows == 2

(***************************************************************************)
(* Numbers.  pandas/numpy hold the metrics as IEEE doubles; the model      *)
(* holds them as exact fractions n/d, plus the two special results of a    *)
(* division by zero, inf (x/0, x > 0) and nan (0/0, and any operation on   *)
(* nan).  All table values are non-negative.                               *)
(***************************************************************************)
RECURSIVE Gcd(_, _)
Gcd(a, b) == IF b = 0 THEN a ELSE Gcd(b, a % b)

NaN == [k |-> "nan", n |-> 0, d |-> 0]
Inf == [k |-> "inf", n |-> 0, d |-> 0]
\* The fraction a/b, b > 0, in lowest terms.
Frac(a, b) ==
    LET g == Gcd(IF a < 0 THEN -a ELSE a, b) IN [k |-> "num", n |-> a \div g, d |-> b \div g]
Num(a) == [k |-> "num", n |-> a, d |-> 1]

\* a / b as numpy divides doubles: no exception, inf or nan on a zero divisor.
Div(a, b) ==
    IF a.k = "nan" \/ b.k = "nan" THEN NaN
    ELSE IF a.k = "inf" THEN (IF b.k = "inf" THEN NaN ELSE Inf)
    ELSE IF b.k = "inf" THEN Num(0)
    ELSE IF b.n = 0 THEN (IF a.n = 0 THEN NaN ELSE Inf)
    ELSE Frac(a.n * b.d, a.d * b.n)

\* a + b and a - b on finite numbers.
Add(a, b) == Frac(a.n * b.d + b.n * a.d, a.d * b.d)
Sub(a, b) == Frac(a.n * b.d - b.n * a.d, a.d * b.d)

\* a < b on numbers; every comparison with nan is false.
Less(a, b) ==
    IF a.k = "nan" \/ b.k = "nan" THEN FALSE
    ELSE IF a.k = "inf" THEN FALSE
    ELSE IF b.k = "inf" THEN TRUE
    ELSE a.n * b.d < b.n * a.d

Leq(a, b) == a.k # "nan" /\ b.k # "nan" /\ (a = b \/ Less(a, b))

(***************************************************************************)
(* GRS_PA01: configuration and style tables.                               *)
(***************************************************************************)
CSV_FILE == "MT25077_Part_D_CSV.csv"
OUTPUT_PDF == "MT25077_Part_D_Plots.pdf"

COLORS == [cpu |-> "#FF6B6B", mem |-> "#4ECDC4", io |-> "#45B7D1"]
MARKERS == [a |-> "o", b |-> "s"]
LINE_STYLES == [a |-> "-", b |-> "--"]

\* The literal lists the loops of create_plots and print_statistics run over.
PROGRAMS == <<"a", "b">>
FUNCTIONS == <<"cpu", "mem", "io">>

\* str.upper() on the values the loops format into labels.
Upper(s) ==
    CASE s = "a" -> "A" [] s = "b" -> "B"
      [] s = "cpu" -> "CPU" [] s = "mem" -> "MEM" [] s = "io" -> "IO"

required_columns ==
    <<"Program", "Function", "Workers", "CPU%", "Memory(KB)", "IO(KB/s)", "Time(s)">>

Range(s) == {s[i] : i \in 1..Len(s)}

(***************************************************************************)
(* The enumerated input files.  A row is a function from column names to   *)
(* values.  Rows of the two programs take every combination of the values *)
(* below: Workers has one value outside [2, 3, 4, 5] and Time(s) the value *)
(* 0.  One row has a program and one row a function that are no keys of    *)
(* the style tables.                                                       *)
(***************************************************************************)
KeyValues == {<<"a", "cpu">>, <<"b", "cpu">>}
UnknownKeyValues == {<<"z", "cpu">>, <<"a", "net">>}
WorkersValues == {2, 6}
TimeValues == {0, 1, 2}
CpuValues == {50}
MemoryValues == {2048}
IoValues == {10}

MkRow(p, f, w, c, m, io, t) ==
    [col \in Range(required_columns) |->
        CASE col = "Program" -> p
          [] col = "Function" -> f
          [] col = "Workers" -> w
          [] col = "CPU%" -> c
          [] col = "Memory(KB)" -> m
          [] col = "IO(KB/s)" -> io
          [] col = "Time(s)" -> t]

Rows ==
    {MkRow(key[1], key[2], w, c, m, io, t) :
        key \in KeyValues, w \in WorkersValues,
        c \in CpuValues, m \in MemoryValues, io \in IoValues, t \in TimeValues}
    \cup {MkRow(key[1], key[2], 2, c, m, io, 1) :
            key \in UnknownKeyValues,
            c \in CpuValues, m \in MemoryValues, io \in IoValues}

Tables == UNION {[1..n -> Rows] : n \in 0..MaxRows}

\* A row of a file whose header lacks some columns.
Project(r, cols) == [col \in cols |-> r[col]]

\* Headers that lack exactly one required column.
ShortHeaders == {Range(required_columns) \ {c} : c \in Range(required_columns)}

OneRow == CHOOSE r \in Rows : r["Program"] = "a" /\ r["Time(s)"] = 1

Files ==
    {[file |-> "missing", columns |-> {}, rows |-> <<>>],
     [file |-> "malformed", columns |-> {}, rows |-> <<>>]}
    \cup {[file |-> "ok", columns |-> Range(required_columns), rows |-> t] : t \in Tables}
    \cup {[file |-> "ok", columns |-> h, rows |-> <<>>] : h \in ShortHeaders}
    \cup {[file |-> "ok", columns |-> h, rows |-> <<Project(OneRow, h)>>] : h \in ShortHeaders}

\* The value of csv in a run of PA02, which reads no file.
NoFile == [file |-> "unused", columns |-> {}, rows |-> <<>>]

NoTable == [columns |-> {}, rows |-> <<>>]

VARIABLES
    script,     \* which of the two scripts this run executes
    pc,         \* the position of the run in main
    csv,        \* the input file CSV_FILE as it is on disk
    df,         \* the DataFrame load_data returned
    figures,    \* the list create_plots builds
    pdf,        \* the output file OUTPUT_PDF and its PdfPages handle
    out,        \* what the run has printed, <<stream, message>> in order (of
                \* each group of print calls the message that tells it apart)
    exit,       \* "running", or the exit code of the process: "0", "1"
    pyplot,     \* the figures pyplot holds open (created and not yet closed)
    png         \* GRS_PA02: the PNG files written, in order

vars == <<script, pc, csv, df, figures, pdf, pyplot, out, exit, png>>

Say(msg) == <<"stdout", msg>>
Traceback == <<"stderr", "Traceback">>

(***************************************************************************)
(* load_data                                                               *)
(***************************************************************************)
\* Faulty variant: the list of required columns lacks its last entry, 'Time(s)'.
missing_columns_forgets_last(columns) ==
    SelectSeq(SubSeq(required_columns, 1, Len(required_columns) - 1),
              LAMBDA col : col \notin columns)

missing_columns(columns) ==
    SelectSeq(required_columns, LAMBDA col : col \notin columns)

\* Faulty variant: the FileNotFoundError handler prints and exits with code 0.
LoadDataNotFound_exits_zero ==
    /\ script = "PA01" /\ pc = "load_data"
    /\ csv.file = "missing"
    /\ out' = out \o <<Say("[ERROR] File not found"),
                       Say("[ERROR] Please run Part D measurement script first.")>>
    /\ pc' = "exited" /\ exit' = "0"
    /\ UNCHANGED <<script, csv, df, figures, pdf, pyplot, png>>

\* pd.read_csv raises FileNotFoundError: the handler prints and exits 1.
LoadDataNotFound ==
    /\ script = "PA01" /\ pc = "load_data"
    /\ csv.file = "missing"
    /\ out' = out \o <<Say("[ERROR] File not found"),
                       Say("[ERROR] Please run Part D measurement script first.")>>
    /\ pc' = "exited" /\ exit' = "1"
    /\ UNCHANGED <<script, csv, df, figures, pdf, pyplot, png>>

\* Faulty variant: the last handler prints and exits with code 0.
LoadDataFailed_exits_zero ==
    /\ script = "PA01" /\ pc = "load_data"
    /\ csv.file = "malformed"
    /\ out' = out \o <<Say("[ERROR] Failed to load CSV")>>
    /\ pc' = "exited" /\ exit' = "0"
    /\ UNCHANGED <<script, csv, df, figures, pdf, pyplot, png>>

\* pd.read_csv raises another exception: the handler prints and exits 1.
LoadDataFailed ==
    /\ script = "PA01" /\ pc = "load_data"
    /\ csv.file = "malformed"
    /\ out' = out \o <<Say("[ERROR] Failed to load CSV")>>
    /\ pc' = "exited" /\ exit' = "1"
    /\ UNCHANGED <<script, csv, df, figures, pdf, pyplot, png>>

\* The file is read; sys.exit(1) when a required column is missing (SystemExit
\* is no Exception, so the last handler does not catch it).
LoadDataRead ==
    /\ script = "PA01" /\ pc = "load_data"
    /\ csv.file = "ok"
    /\ IF missing_columns(csv.columns) # <<>>
       THEN /\ out' = out \o <<Say("[INFO] Loaded data"),
                               Say("[ERROR] Missing required columns")>>
            /\ pc' = "exited" /\ exit' = "1"
            /\ UNCHANGED df
       ELSE /\ out' = out \o <<Say("[INFO] Loaded data")>>
            /\ df' = [columns |-> csv.columns, rows |-> csv.rows]
            /\ pc' = "print_statistics"
            /\ UNCHANGED exit
    /\ UNCHANGED <<script, csv, figures, pdf, pyplot, png>>

load_data == LoadDataNotFound \/ LoadDataFailed \/ LoadDataRead

(***************************************************************************)
(* Selection of rows.                                                      *)
(***************************************************************************)
\* df[(df['Program'] == program) & (df['Function'] == function)]: the matching
\* rows, in the order of the table.
Select(rows, program, function) ==
    SelectSeq(rows, LAMBDA r : r["Program"] = program /\ r["Function"] = function)

\* ... & (df['Workers'].isin([2, 3, 4, 5]))
SelectAligned(rows, program, function) ==
    SelectSeq(Select(rows, program, function), LAMBDA r : r["Workers"] \in {2, 3, 4, 5})

\* .sort_values('Workers'): ascending, rows of equal Workers in table order.
RECURSIVE Insert(_, _)
Insert(s, r) ==
    IF s = <<>> THEN <<r>>
    ELSE IF r["Workers"] < Head(s)["Workers"] THEN <<r>> \o s
    ELSE <<Head(s)>> \o Insert(Tail(s), r)

\* Faulty variant: the rows are not sorted.
sort_values_keeps_order(rows) == rows

RECURSIVE sort_values(_)
sort_values(rows) ==
    IF rows = <<>> THEN <<>>
    ELSE Insert(sort_values(SubSeq(rows, 1, Len(rows) - 1)), rows[Len(rows)])

Column(rows, col) == [i \in 1..Len(rows) |-> Num(rows[i][col])]

\* A column divided by a scalar, element by element.
DivideBy(xs, c) == [i \in 1..Len(xs) |-> Div(xs[i], c)]

(***************************************************************************)
(* An uncaught exception: the interpreter prints the traceback to stderr   *)
(* and the process exits with code 1.                                      *)
(***************************************************************************)
Uncaught ==
    /\ out' = out \o <<Traceback>>
    /\ pc' = "crashed" /\ exit' = "1"

(***************************************************************************)
(* print_statistics                                                        *)
(***************************************************************************)
\* The (program, function) pairs in the order of the nested loops.
LoopPairs ==
    [i \in 1..(Len(PROGRAMS) * Len(FUNCTIONS)) |->
        <<PROGRAMS[((i - 1) \div Len(FUNCTIONS)) + 1],
          FUNCTIONS[((i - 1) % Len(FUNCTIONS)) + 1]>>]

\* The columns print_statistics indexes: the two it filters on, and the
\* metrics of any group that has rows.
StatisticsColumns(t) ==
    IF {"Program", "Function"} \subseteq t.columns
       /\ \E i \in 1..Len(LoopPairs) :
            Select(t.rows, LoopPairs[i][1], LoopPairs[i][2]) # <<>>
    THEN Range(required_columns)
    ELSE {"Program", "Function"}

print_statistics ==
    /\ script = "PA01" /\ pc = "print_statistics"
    /\ IF StatisticsColumns(df) \subseteq df.columns
       THEN /\ out' = out \o <<Say("Summary Statistics (MT25077)")>>
            /\ pc' = "create_plots"
            /\ UNCHANGED exit
       ELSE Uncaught   \* KeyError
    /\ UNCHANGED <<script, csv, df, figures, pdf, pyplot, png>>

(***************************************************************************)
(* create_plots.  A figure is a name and its axes; an axes is the lines    *)
(* drawn on it by ax.plot, in order, and the labels ax.legend() shows.     *)
(***************************************************************************)
Line(program, function, label, x, y, marker, linestyle, color) ==
    [program |-> program, function |-> function, label |-> label,
     x |-> x, y |-> y, marker |-> marker, linestyle |-> linestyle, color |-> color]

\* ax.legend(): one entry per labelled line of the axes.
Axes(lines) == [lines |-> lines, legend |-> [i \in 1..Len(lines) |-> lines[i].label]]

\* The values plotted for a metric: Memory(KB) is converted to MB.
MetricValues(rows, metric) ==
    IF metric = "Memory(KB)" THEN DivideBy(Column(rows, metric), Num(1024))
    ELSE Column(rows, metric)

\* Plots 1 to 4: one line per (program, function), rows as selected.
MetricLine(rows, program, function, metric) ==
    LET data == Select(rows, program, function) IN
    Line(program, function,
         "Program " \o Upper(program) \o " - " \o Upper(function),
         Column(data, "Workers"), MetricValues(data, metric),
         MARKERS[program], LINE_STYLES[program], COLORS[function])

MetricFigure(rows, name, metric) ==
    [name |-> name,
     axes |-> <<Axes([i \in 1..Len(LoopPairs) |->
                        MetricLine(rows, LoopPairs[i][1], LoopPairs[i][2], metric)])>>]

\* Plot 5: a 2x2 grid, one axes per metric; per function the line of
\* program a and the line of program b restricted to workers 2..5.
metrics == <<"CPU%", "Memory(KB)", "Time(s)", "IO(KB/s)">>

\* Faulty variant: the literal marker of the threads line is the one of processes.
ComparisonLine_same_marker(rows, program, function, metric) ==
    LET data == IF program = "a" THEN Select(rows, "a", function)
                ELSE SelectAligned(rows, "b", function) IN
    Line(program, function,
         Upper(function) \o (IF program = "a" THEN " (Processes)" ELSE " (Threads)"),
         Column(data, "Workers"), MetricValues(data, metric),
         "o",
         IF program = "a" THEN "-" ELSE "--",
         COLORS[function])

ComparisonLine(rows, program, function, metric) ==
    LET data == IF program = "a" THEN Select(rows, "a", function)
                ELSE SelectAligned(rows, "b", function) IN
    Line(program, function,
         Upper(function) \o (IF program = "a" THEN " (Processes)" ELSE " (Threads)"),
         Column(data, "Workers"), MetricValues(data, metric),
         IF program = "a" THEN "o" ELSE "s",
         IF program = "a" THEN "-" ELSE "--",
         COLORS[function])

ComparisonAxes(rows, metric) ==
    Axes([i \in 1..(2 * Len(FUNCTIONS)) |->
            ComparisonLine(rows, PROGRAMS[((i - 1) % 2) + 1],
                           FUNCTIONS[((i - 1) \div 2) + 1], metric)])

ComparisonFigure(rows) ==
    [name |-> "Comparison",
     axes |-> [i \in 1..Len(metrics) |-> ComparisonAxes(rows, metrics[i])]]

\* Plot 6: speedup = baseline_time / data['Time(s)'] on the rows sorted by
\* Workers, where baseline_time is the time of the first sorted row.
Speedup(data) ==
    LET baseline_time == Num(data[1]["Time(s)"]) IN
    [i \in 1..Len(data) |-> Div(baseline_time, Num(data[i]["Time(s)"]))]

\* Faulty variant: the line is drawn without the guard len(data) > 0.
SpeedupLines_no_guard(rows, program, function) ==
    LET data == sort_values(Select(rows, program, function)) IN
    <<Line(program, function, "Program " \o Upper(program),
           Column(data, "Workers"), Speedup(data),
           MARKERS[program], LINE_STYLES[program], "cycle")>>

\* The line of one program on one axes of plot 6, in a sequence that is
\* empty when the group has no rows (the guard len(data) > 0).  No color is
\* passed: the line takes the next color of the axes' property cycle.
SpeedupLines(rows, program, function) ==
    LET data == sort_values(Select(rows, program, function)) IN
    IF Len(data) > 0
    THEN <<Line(program, function, "Program " \o Upper(program),
                Column(data, "Workers"), Speedup(data),
                MARKERS[program], LINE_STYLES[program], "cycle")>>
    ELSE <<>>

\* df['Workers'].max(): nan on a table without rows.
MaxWorkers(rows) ==
    IF rows = <<>> THEN NaN
    ELSE Num(CHOOSE w \in {rows[i]["Workers"] : i \in 1..Len(rows)} :
                \A i \in 1..Len(rows) : rows[i]["Workers"] <= w)

\* ax.plot([2, max_workers], [1, max_workers/2], 'k:', ...)
IdealLine(rows) ==
    Line("", "", "Ideal Linear Speedup",
         <<Num(2), MaxWorkers(rows)>>, <<Num(1), Div(MaxWorkers(rows), Num(2))>>,
         "", ":", "k")

ScalabilityAxes(rows, function) ==
    Axes(SpeedupLines(rows, PROGRAMS[1], function)
         \o SpeedupLines(rows, PROGRAMS[2], function)
         \o <<IdealLine(rows)>>)

ScalabilityFigure(rows) ==
    [name |-> "Scalability",
     axes |-> [i \in 1..Len(FUNCTIONS) |-> ScalabilityAxes(rows, FUNCTIONS[i])]]

\* The number of figures create_plots builds.
NumPlots == 6

\* The message printed before each figure is built.
CreatingPlot ==
    <<"[INFO] Creating Plot 1: CPU% vs Workers",
      "[INFO] Creating Plot 2: Memory Usage vs Workers",
      "[INFO] Creating Plot 3: Execution Time vs Workers",
      "[INFO] Creating Plot 4: I/O Usage vs Workers",
      "[INFO] Creating Plot 5: Processes vs Threads Comparison",
      "[INFO] Creating Plot 6: Scalability Analysis">>

\* The k-th figure of create_plots.
Plot(rows, k) ==
    CASE k = 1 -> MetricFigure(rows, "CPU%", "CPU%")
      [] k = 2 -> MetricFigure(rows, "Memory", "Memory(KB)")
      [] k = 3 -> MetricFigure(rows, "Time", "Time(s)")
      [] k = 4 -> MetricFigure(rows, "IO", "IO(KB/s)")
      [] k = 5 -> ComparisonFigure(rows)
      [] k = 6 -> ScalabilityFigure(rows)

\* One step of create_plots: the next figure is built and appended; after
\* the last one the list is returned to main.
create_plots ==
    /\ script = "PA01" /\ pc = "create_plots"
    /\ Len(figures) < NumPlots
    /\ IF Range(required_columns) \subseteq df.columns
       THEN /\ figures' = Append(figures, Plot(df.rows, Len(figures) + 1))
            /\ pyplot' = pyplot \cup {Len(figures) + 1}
            /\ out' = out \o <<Say(CreatingPlot[Len(figures) + 1])>>
            /\ pc' = IF Len(figures') = NumPlots THEN "save_plots" ELSE "create_plots"
            /\ UNCHANGED exit
       ELSE /\ Uncaught   \* KeyError
            /\ UNCHANGED <<figures, pyplot>>
    /\ UNCHANGED <<script, csv, df, pdf, png>>

(***************************************************************************)
(* save_plots.  `with PdfPages(output_file) as pdf` opens the document;    *)
(* each pdf.savefig appends one page; leaving the block, normally or by an *)
(* exception, closes it.  Opening the file or saving a figure can raise    *)
(* (an unwritable path, a full disk, a rendering error): nothing in        *)
(* save_plots or main catches it.                                          *)
(***************************************************************************)
NoPdf == [state |-> "absent", pages |-> <<>>]

SaveOpen ==
    /\ script = "PA01" /\ pc = "save_plots"
    /\ pdf' = [state |-> "open", pages |-> <<>>]
    /\ out' = out \o <<Say("[INFO] Saving plots")>>
    /\ pc' = "savefig"
    /\ UNCHANGED <<script, csv, df, figures, pyplot, exit, png>>

SaveOpenFails ==
    /\ script = "PA01" /\ pc = "save_plots"
    /\ out' = out \o <<Say("[INFO] Saving plots"), Traceback>>
    /\ pc' = "crashed" /\ exit' = "1"
    /\ UNCHANGED <<script, csv, df, figures, pdf, pyplot, png>>

\* Faulty variant: each page is put in front of the pages saved before it.
SaveFig_prepends ==
    /\ script = "PA01" /\ pc = "savefig"
    /\ Len(pdf.pages) < Len(figures)
    /\ pdf' = [pdf EXCEPT !.pages = <<figures[Len(pdf.pages) + 1]>> \o @]
    /\ pyplot' = pyplot \ {Len(pdf.pages) + 1}
    /\ UNCHANGED <<script, pc, csv, df, figures, out, exit, png>>

\* One iteration of the loop: pdf.savefig(fig); plt.close(fig).
SaveFig ==
    /\ script = "PA01" /\ pc = "savefig"
    /\ Len(pdf.pages) < Len(figures)
    /\ pdf' = [pdf EXCEPT !.pages = Append(@, figures[Len(pdf.pages) + 1])]
    /\ pyplot' = pyplot \ {Len(pdf.pages) + 1}
    /\ UNCHANGED <<script, pc, csv, df, figures, out, exit, png>>

\* Faulty variant: a failing pdf.savefig is caught and logged inside the loop, the
\* figure is left out (a blank page stands for it) and the loop goes on.
SaveFigFails_continues ==
    /\ script = "PA01" /\ pc = "savefig"
    /\ Len(pdf.pages) < Len(figures)
    /\ pdf' = [pdf EXCEPT !.pages = Append(@, [name |-> "skipped", axes |-> <<>>])]
    /\ out' = out \o <<Say("[ERROR] Failed to save figure")>>
    /\ UNCHANGED <<script, pc, csv, df, figures, pyplot, exit, png>>

\* Faulty variant: the document is opened without a with block, so a
\* failing pdf.savefig leaves it open.
SaveFigFails_leaves_open ==
    /\ script = "PA01" /\ pc = "savefig"
    /\ Len(pdf.pages) < Len(figures)
    /\ Uncaught
    /\ UNCHANGED <<script, csv, df, figures, pdf, pyplot, png>>

\* pdf.savefig raises: the with block closes the document with the pages
\* saved so far and the exception leaves save_plots and main.
SaveFigFails ==
    /\ script = "PA01" /\ pc = "savefig"
    /\ Len(pdf.pages) < Len(figures)
    /\ pdf' = [pdf EXCEPT !.state = "closed"]
    /\ Uncaught
    /\ UNCHANGED <<script, csv, df, figures, pyplot, png>>

\* The loop is over: the with block closes the document.
SaveClose ==
    /\ script = "PA01" /\ pc = "savefig"
    /\ Len(pdf.pages) = Len(figures)
    /\ pdf' = [pdf EXCEPT !.state = "closed"]
    /\ out' = out \o <<Say("[INFO] Successfully saved")>>
    /\ pc' = "summary"
    /\ UNCHANGED <<script, csv, df, figures, pyplot, exit, png>>

save_plots == SaveOpen \/ SaveOpenFails \/ SaveFig \/ SaveFigFails \/ SaveClose

\* The end of main: the summary is printed and the process exits normally.
Summary ==
    /\ script = "PA01" /\ pc = "summary"
    /\ out' = out \o <<Say("Plot Generation Complete!")>>
    /\ pc' = "done" /\ exit' = "0"
    /\ UNCHANGED <<script, csv, df, figures, pdf, pyplot, png>>

main == load_data \/ print_statistics \/ create_plots \/ save_plots \/ Summary

(***************************************************************************)
(* GRS_PA02: the hardcoded measurements (kept as the decimal literals of   *)
(* the source) and the plotting configuration.                             *)
(***************************************************************************)
MSG_SIZES == <<1024, 4096, 65536, 1048576>>
MSG_LABELS == <<"1 KB", "4 KB", "64 KB", "1 MB">>
THREAD_COUNTS == <<1, 2, 4, 8>>
IMPLS == <<"two_copy", "one_copy", "zero_copy">>

throughput ==
    [two_copy |-> <<"9.3742", "14.4076", "38.9824", "44.0402">>,
     one_copy |-> <<"7.0840", "13.6835", "42.9614", "48.4065">>,
     zero_copy |-> <<"4.6127", "10.2657", "30.1563", "35.3253">>]

latency ==
    [two_copy |-> <<"8.26", "9.10", "9.04", "6.98">>,
     one_copy |-> <<"9.57", "9.29", "9.53", "8.64">>,
     zero_copy |-> <<"12.25", "12.25", "12.71", "16.45">>]

l1_misses ==
    [two_copy |-> <<"3963320820", "3375278746", "2943379236", "3123572797">>,
     one_copy |-> <<"3237920369", "3187780795", "3218773154", "3461652149">>,
     zero_copy |-> <<"2993598361", "3140791657", "3077558012", "3131315716">>]

ctx_sw ==
    [two_copy |-> <<"1895182", "2509493", "774042", "853238">>,
     one_copy |-> <<"1627504", "3328111", "889593", "931450">>,
     zero_copy |-> <<"3209825", "3075449", "1678570", "714696">>]

cycles_per_byte ==
    [two_copy |-> <<"11.99", "6.52", "2.06", "1.95">>,
     one_copy |-> <<"14.30", "5.96", "1.87", "1.84">>,
     zero_copy |-> <<"17.98", "7.99", "2.96", "2.60">>]

PA02_COLORS == [two_copy |-> "#e74c3c", one_copy |-> "#2ecc71", zero_copy |-> "#3498db"]
PA02_MARKERS == [two_copy |-> "o", one_copy |-> "s", zero_copy |-> "^"]
LABELS ==
    [two_copy |-> "Two-Copy (send/recv)",
     one_copy |-> "One-Copy (sendmsg+iovec)",
     zero_copy |-> "Zero-Copy (MSG_ZEROCOPY)"]

\* width = 0.25
width == Frac(1, 4)

\* x = np.arange(len(MSG_SIZES)): 0, 1, ..., len - 1
arange(n) == [i \in 1..n |-> Num(i - 1)]

\* ax.bar(centres, heights, width, ...): one rectangle per centre, centred
\* on it (align='center'), spanning [centre - width/2, centre + width/2].
Bar(centre, height, w, impl) ==
    [left |-> Sub(centre, Div(w, Num(2))), right |-> Add(centre, Div(w, Num(2))),
     height |-> height, label |-> LABELS[impl], color |-> PA02_COLORS[impl]]

bar(centres, heights, w, impl) ==
    [i \in 1..Len(centres) |-> Bar(centres[i], heights[i], w, impl)]

\* Faulty variant: the third series is centred on x, like the second.
Centres_third_on_x(x, j) ==
    [i \in 1..Len(x) |->
        CASE j = 1 -> Sub(x[i], width)
          [] j = 2 -> x[i]
          [] j = 3 -> x[i]]

\* The centres of the series' bars: x - width, x, x + width.
Centres(x, j) ==
    [i \in 1..Len(x) |->
        CASE j = 1 -> Sub(x[i], width)
          [] j = 2 -> x[i]
          [] j = 3 -> Add(x[i], width)]

\* One grouped bar axes: the three ax.bar calls in order, then ax.legend().
BarAxes(data) ==
    LET x == arange(Len(MSG_SIZES))
        bars == bar(Centres(x, 1), data[IMPLS[1]], width, IMPLS[1])
                \o bar(Centres(x, 2), data[IMPLS[2]], width, IMPLS[2])
                \o bar(Centres(x, 3), data[IMPLS[3]], width, IMPLS[3])
    IN [kind |-> "bar", bars |-> bars, lines |-> <<>>,
        xticks |-> x, xticklabels |-> MSG_LABELS,
        legend |-> [j \in 1..Len(IMPLS) |-> LABELS[IMPLS[j]]]]

\* One line axes: a line per implementation over the same x values.
LineAxes(xs, data) ==
    [kind |-> "line", bars |-> <<>>,
     lines |-> [j \in 1..Len(IMPLS) |->
                  [x |-> xs, y |-> data[IMPLS[j]], label |-> LABELS[IMPLS[j]],
                   marker |-> PA02_MARKERS[IMPLS[j]], color |-> PA02_COLORS[IMPLS[j]]]],
     xticks |-> <<>>, xticklabels |-> <<>>,
     legend |-> [j \in 1..Len(IMPLS) |-> LABELS[IMPLS[j]]]]

plot_throughput_vs_msgsize ==
    [file |-> "MT25077_Plot_Throughput_vs_MsgSize.png", axes |-> <<BarAxes(throughput)>>]

plot_latency_vs_threads ==
    [file |-> "MT25077_Plot_Latency_vs_Threads.png",
     axes |-> <<LineAxes(THREAD_COUNTS, latency)>>]

plot_cache_misses_vs_msgsize ==
    [file |-> "MT25077_Plot_CacheMisses_vs_MsgSize.png",
     axes |-> <<BarAxes(l1_misses), BarAxes(ctx_sw)>>]

plot_cycles_per_byte ==
    [file |-> "MT25077_Plot_CyclesPerByte_vs_MsgSize.png",
     axes |-> <<LineAxes(MSG_SIZES, cycles_per_byte)>>]

\* The message printed before each call.
GeneratingPlot ==
    <<"Generating Plot 1: Throughput vs Message Size...",
      "Generating Plot 2: Latency vs Thread Count...",
      "Generating Plot 3: Cache Misses vs Message Size...",
      "Generating Plot 4: CPU Cycles per Byte...">>

\* The calls of the main block, in order.
PA02Plots ==
    <<plot_throughput_vs_msgsize, plot_latency_vs_threads,
      plot_cache_misses_vs_msgsize, plot_cycles_per_byte>>

\* One plot function runs: the figure is drawn, saved to its PNG and closed.
PA02Plot ==
    /\ script = "PA02" /\ pc = "plots"
    /\ Len(png) < Len(PA02Plots)
    /\ png' = Append(png, PA02Plots[Len(png) + 1])
    /\ out' = out \o <<Say(GeneratingPlot[Len(png) + 1])>>
    /\ UNCHANGED <<script, pc, csv, df, figures, pdf, pyplot, exit>>

\* plt.savefig raises in a plot function: nothing catches it, the remaining
\* plot functions are not called.
PA02PlotFails ==
    /\ script = "PA02" /\ pc = "plots"
    /\ Len(png) < Len(PA02Plots)
    /\ out' = out \o <<Say(GeneratingPlot[Len(png) + 1]), Traceback>>
    /\ pc' = "crashed" /\ exit' = "1"
    /\ UNCHANGED <<script, csv, df, figures, pdf, pyplot, png>>

PA02Done ==
    /\ script = "PA02" /\ pc = "plots"
    /\ Len(png) = Len(PA02Plots)
    /\ out' = out \o <<Say("All plots generated successfully."),
                       Say("PNG files saved in current directory.")>>
    /\ pc' = "done" /\ exit' = "0"
    /\ UNCHANGED <<script, csv, df, figures, pdf, pyplot, png>>

PA02Main == PA02Plot \/ PA02PlotFails \/ PA02Done

(***************************************************************************)
(* A run: one of the two scripts, PA01 on any of the enumerated files.     *)
(***************************************************************************)
Init ==
    /\ script \in {"PA01", "PA02"}
    /\ pc = IF script = "PA01" THEN "load_data" ELSE "plots"
    /\ csv \in (IF script = "PA01" THEN Files
                ELSE {NoFile})
    /\ df = NoTable
    /\ figures = <<>>
    /\ pdf = NoPdf
    /\ pyplot = {}
    /\ out = <<>>
    /\ exit = "running"
    /\ png = <<>>

Next == main \/ PA02Main

Spec == Init /\ [][Next]_vars

(***************************************************************************)
(* Properties.                                                             *)
(***************************************************************************)
Printed(msg) == \E i \in 1..Len(out) : out[i] = Say(msg)

\* The run of PA01 reads a file that exists but lacks a required column.
SchemaViolation ==
    /\ script = "PA01" /\ csv.file = "ok"
    /\ \E i \in 1..Len(required_columns) : required_columns[i] \notin csv.columns

\* C1: when the input table lacks a required column, load_data reports the
\* missing columns and exits with code 1, and the run never goes past
\* load_data: no figure is ever created and the output PDF is never opened.
C1_SchemaErrorHaltsBeforeRendering ==
    SchemaViolation =>
        /\ pc \in {"load_data", "exited"}
        /\ figures = <<>> /\ pyplot = {} /\ pdf = NoPdf /\ df = NoTable
        /\ pc = "exited" => exit = "1" /\ Printed("[ERROR] Missing required columns")

\* C1 witness: a file without the Time(s) column, after load_data has exited.
C1_Witness ==
    /\ SchemaViolation /\ "Time(s)" \notin csv.columns /\ Len(csv.rows) = 1
    /\ pc = "exited" /\ exit = "1"

\* C2: when the input CSV file does not exist, the run prints the not-found
\* diagnostic and exits with code 1, and in no state of the run does the
\* output PDF exist or get written.
C2_MissingInputNoArtifact ==
    (script = "PA01" /\ csv.file = "missing") =>
        /\ pc \in {"load_data", "exited"}
        /\ pdf = NoPdf /\ figures = <<>>
        /\ pc = "exited" => exit = "1" /\ Printed("[ERROR] File not found")

\* C2 witness: the run on a missing file, after it has exited.
C2_Witness ==
    script = "PA01" /\ csv.file = "missing" /\ pc = "exited" /\ Printed("[ERROR] File not found")

\* Sequence s is the first Len(s) elements of sequence t.
IsPrefix(s, t) == Len(s) <= Len(t) /\ s = SubSeq(t, 1, Len(s))

\* C3 as stated: a failure while writing one artifact is logged and the
\* writer continues, so that whenever the writer has finished, every
\* artifact but the failing one is written and the run was not aborted.
C3_FailureLoggedAndContinues ==
    /\ (script = "PA01" /\ pdf.state = "closed") =>
          pc # "crashed" /\ Len(pdf.pages) >= Len(figures) - 1
    /\ (script = "PA02" /\ pc \in {"done", "crashed"}) =>
          pc # "crashed" /\ Len(png) >= Len(PA02Plots) - 1

\* C3 amended: a failure while writing artifact k is not caught.  The
\* artifacts before k are written (the PDF is closed holding exactly those
\* pages, in order, without gaps), artifact k and those after it are not,
\* and the run aborts with exit code 1.
C3_FailureAbortsAfterPrefix ==
    /\ script = "PA01" =>
          /\ IsPrefix(pdf.pages, figures)
          /\ (pc = "crashed" /\ pdf.state # "absent") =>
                pdf.state = "closed" /\ Len(pdf.pages) < Len(figures) /\ exit = "1"
          /\ (pdf.state = "closed" /\ Len(pdf.pages) < Len(figures)) => pc = "crashed"
    /\ script = "PA02" =>
          /\ IsPrefix(png, PA02Plots)
          /\ pc = "crashed" => Len(png) < Len(PA02Plots) /\ exit = "1"
          /\ pc = "done" => png = PA02Plots

\* C3 witness: saving the third figure failed after two pages were written.
C3_Witness ==
    script = "PA01" /\ pc = "crashed" /\ pdf.state = "closed" /\ Len(pdf.pages) = 2

\* The data lines of the figures built so far, as <<figure, axes, line>>
\* indices (the ideal-speedup line of plot 6 belongs to no program).
DataLines ==
    {t \in UNION {UNION {{<<f, a, l>> : l \in 1..Len(figures[f].axes[a].lines)} :
                            a \in 1..Len(figures[f].axes)} : f \in 1..Len(figures)} :
        figures[t[1]].axes[t[2]].lines[t[3]].program # ""}

LineAt(t) == figures[t[1]].axes[t[2]].lines[t[3]]

Ascending(xs) == \A i \in 1..(Len(xs) - 1) : Leq(xs[i], xs[i + 1])

\* The rows of group (p, f) appear in the table with ascending Workers.
GroupAscending(rows, p, f) ==
    \A i, j \in 1..Len(rows) :
        (i < j /\ rows[i]["Program"] = p /\ rows[j]["Program"] = p
               /\ rows[i]["Function"] = f /\ rows[j]["Function"] = f)
        => rows[i]["Workers"] <= rows[j]["Workers"]

\* C4 as stated: every series selected for plotting, in every chart, has
\* its points ordered ascending by Workers.
C4_EverySeriesAscending ==
    \A t \in DataLines : Ascending(LineAt(t).x)

\* C4 amended: only the scalability chart (plot 6) sorts: each of its
\* series is ascending by Workers for every table.  The series of plots 1
\* to 5 keep the row order of the table: they are ascending whenever the
\* rows of their group are ascending in the table, and in plots 1 to 4
\* they are not ascending when those rows are not.
C4_OnlyScalabilitySorted ==
    \A t \in DataLines :
        LET line == LineAt(t) IN
        /\ t[1] = NumPlots => Ascending(line.x)
        /\ GroupAscending(df.rows, line.program, line.function) => Ascending(line.x)
        /\ (t[1] <= 4 /\ ~GroupAscending(df.rows, line.program, line.function))
              => ~Ascending(line.x)

\* C4 witness: all six figures are built from a table whose rows of one
\* group are in descending order of Workers; plot 1 shows them unsorted and
\* plot 6 shows both points.
C4_Witness ==
    /\ Len(figures) = NumPlots
    /\ \E t \in DataLines : t[1] = 1 /\ ~Ascending(LineAt(t).x)
    /\ \E t \in DataLines : t[1] = NumPlots /\ Len(LineAt(t).x) = 2
                            /\ LineAt(t).x[1] # LineAt(t).x[2]

\* The Time(s) values of group (p, f), rows ordered by Workers.
SortedTimes(p, f) ==
    LET data == sort_values(Select(df.rows, p, f)) IN
    [i \in 1..Len(data) |-> data[i]["Time(s)"]]

\* C5: in the scalability chart every series' speedup at index i is the
\* number time[0] / time[i] (a finite s with s * time[i] = time[0]), index 0
\* being the row with the smallest Workers, and the speedup at index 0 is 1.
C5_SpeedupIsBaselineRatio ==
    \A t \in DataLines :
        t[1] = NumPlots =>
            LET line == LineAt(t)
                time == SortedTimes(line.program, line.function) IN
            /\ Len(line.y) = Len(time) /\ Len(line.y) > 0
            /\ line.y[1] = Num(1)
            /\ \A i \in 1..Len(line.y) :
                  line.y[i].k = "num" /\ line.y[i].n * time[i] = time[1] * line.y[i].d

\* The messages of a run of PA01 in which nothing goes wrong.
ProgressMessages ==
    {Say("[INFO] Loaded data"), Say("Summary Statistics (MT25077)"),
     Say("[INFO] Saving plots"), Say("[INFO] Successfully saved"),
     Say("Plot Generation Complete!")}
    \cup {Say(CreatingPlot[k]) : k \in 1..NumPlots}

\* A message or an ending of the run that reports an error.
ErrorOutcome ==
    \/ pc \in {"crashed", "exited"}
    \/ \E i \in 1..Len(out) : out[i] \notin ProgressMessages

\* Group (p, f) has a line in the scalability chart.
HasSpeedupLine(p, f) ==
    \E t \in DataLines : t[1] = NumPlots /\ LineAt(t).program = p /\ LineAt(t).function = f

\* C6: the speedup computation guards a missing baseline and a division by
\* zero: for a group without rows or with a Time(s) of zero no speedup is
\* computed or plotted in the scalability chart, and a zero Time(s) produces
\* an error outcome instead.  (The claim asks for the error outcome of an
\* empty group as well; the formula asks for less and is refuted all the
\* same, by a zero Time(s) alone.)
C6_ZeroTimeGuarded ==
    Len(figures) = NumPlots =>
        \A p \in Range(PROGRAMS), f \in Range(FUNCTIONS) :
            LET data == Select(df.rows, p, f) IN
            /\ data = <<>> => ~HasSpeedupLine(p, f)
            /\ (\E i \in 1..Len(data) : data[i]["Time(s)"] = 0)
                  => ~HasSpeedupLine(p, f) /\ ErrorOutcome

\* C7: on a successful run the PDF holds exactly one page per created
\* figure, in creation order: CPU%, Memory, Time, I/O, Comparison,
\* Scalability; page k is the k-th figure, none skipped or duplicated.
C7_PagesInCreationOrder ==
    (script = "PA01" /\ pc = "done") =>
        /\ exit = "0" /\ pdf.state = "closed"
        /\ Len(figures) = NumPlots /\ Len(pdf.pages) = NumPlots
        /\ \A k \in 1..NumPlots : pdf.pages[k] = figures[k]
        /\ [k \in 1..NumPlots |-> pdf.pages[k].name]
              = <<"CPU%", "Memory", "Time", "IO", "Comparison", "Scalability">>
        /\ pyplot = {}

\* C7 witness: a successful run on a table of two rows.
C7_Witness ==
    script = "PA01" /\ pc = "done" /\ Len(df.rows) = 2 /\ Len(pdf.pages) = NumPlots

\* A row whose Program or Function is no key of the style tables.
UnknownKey(r) ==
    r["Program"] \notin DOMAIN MARKERS \/ r["Function"] \notin DOMAIN COLORS

\* The number of points of the lines of figure f.
RECURSIVE SumLen(_)
SumLen(lines) == IF lines = <<>> THEN 0 ELSE Len(Head(lines).x) + SumLen(Tail(lines))

\* C8 as stated: every series drawn takes its color, marker and line style
\* from the style tables keyed by (Program, Function), and a row whose
\* Program or Function is no key of the tables makes chart building fail:
\* no figure is built from such a table and the run does not go on to save.
C8_StyleLookupFails ==
    /\ \A t \in DataLines :
          LET line == LineAt(t) IN
          /\ line.color = COLORS[line.function]
          /\ line.marker = MARKERS[line.program]
          /\ line.linestyle = LINE_STYLES[line.program]
    /\ (\E i \in 1..Len(df.rows) : UnknownKey(df.rows[i]))
          => figures = <<>> /\ pc \notin {"save_plots", "savefig", "summary", "done"}

\* C8 amended: every series drawn is one of the six fixed (Program,
\* Function) pairs and has the marker and line style of its program in
\* MARKERS and LINE_STYLES; its color is COLORS[function] in plots 1 to 5
\* and the axes' default color cycle in plot 6.  Rows whose Program or
\* Function is no key of the tables are never looked up: they are silently
\* left out of every chart (plots 1 to 4 show exactly the rows with known
\* keys) and chart building never fails.
C8_UnknownKeysLeftOut ==
    /\ \A t \in DataLines :
          LET line == LineAt(t) IN
          /\ line.program \in DOMAIN MARKERS /\ line.function \in DOMAIN COLORS
          /\ line.marker = MARKERS[line.program]
          /\ line.linestyle = LINE_STYLES[line.program]
          /\ line.color = IF t[1] = NumPlots THEN "cycle" ELSE COLORS[line.function]
    /\ \A f \in 1..Len(figures) :
          f <= 4 => SumLen(figures[f].axes[1].lines)
                      = Cardinality({i \in 1..Len(df.rows) : ~UnknownKey(df.rows[i])})
    /\ (script = "PA01" /\ pc = "crashed") => Len(figures) = NumPlots
    /\ (script = "PA01" /\ pc = "create_plots") => exit = "running"

\* C8 witness: all figures are built from a table that holds a row with an
\* unknown program, a row with an unknown function and a row that is drawn.
C8_Witness ==
    /\ Len(figures) = NumPlots /\ pc = "save_plots"
    /\ \E i \in 1..Len(df.rows) : df.rows[i]["Program"] \notin DOMAIN MARKERS
    /\ \E i \in 1..Len(df.rows) : ~UnknownKey(df.rows[i])
    /\ \E t \in DataLines : t[1] = 5 /\ LineAt(t).program = "b" /\ Len(LineAt(t).x) > 0

\* The bar axes drawn so far, as <<file, axes>> indices.
BarAxesDrawn ==
    {t \in UNION {{<<k, a>> : a \in 1..Len(png[k].axes)} : k \in 1..Len(png)} :
        png[t[1]].axes[t[2]].kind = "bar"}

\* C9: each grouped bar chart holds exactly N x M bars (N = 3 series, M = 4
\* message sizes); bar i of series j is 0.25 wide and centred at
\* (i - 1) + (j - 2) * 0.25; no two bars overlap in their horizontal extent.
C9_GroupedBarsDisjoint ==
    \A t \in BarAxesDrawn :
        LET bars == png[t[1]].axes[t[2]].bars
            M == Len(MSG_SIZES) IN
        /\ Len(bars) = 3 * 4
        /\ \A j \in 1..3, i \in 1..M :
              LET b == bars[(j - 1) * M + i] IN
              /\ Sub(b.right, b.left) = Frac(1, 4)
              /\ Add(b.left, b.right) = Frac(2 * (4 * (i - 1) + (j - 2)), 4)
        /\ \A m, n \in 1..Len(bars) :
              m # n => Leq(bars[m].right, bars[n].left) \/ Leq(bars[n].right, bars[m].left)

\* C9 witness: PA02 has drawn the throughput chart and the two cache charts.
C9_Witness ==
    script = "PA02" /\ Len(png) = 3 /\ Cardinality(BarAxesDrawn) = 3

\* The lines of group (p, f) on axes a of figure k.
GroupLines(k, a, p, f) ==
    {l \in 1..Len(figures[k].axes[a].lines) :
        figures[k].axes[a].lines[l].program = p /\ figures[k].axes[a].lines[l].function = f}

\* C10 as stated: a (program, function) group without rows is left out of
\* every chart (no line and no legend entry), a warning is logged, and the
\* rest of the report is completed.
C10_EmptySeriesOmitted ==
    Len(figures) = NumPlots =>
        \A p \in Range(PROGRAMS), f \in Range(FUNCTIONS) :
            Select(df.rows, p, f) = <<>> =>
                /\ \A k \in 1..NumPlots : \A a \in 1..Len(figures[k].axes) :
                      GroupLines(k, a, p, f) = {}
                /\ \E i \in 1..Len(out) : out[i] \notin ProgressMessages \cup {Traceback}

\* C10 amended: a (program, function) group without rows does not stop the
\* run, and nothing is logged about it.  Plots 1 to 5 still draw its line,
\* without points, and its legend entry; only plot 6 leaves it out (no line
\* and no legend entry).  Every group with rows is drawn in plots 1 to 4
\* and 6, and a run that ends normally has written all six pages.
C10_EmptySeriesDrawnEmpty ==
    /\ Len(figures) = NumPlots =>
          \A p \in Range(PROGRAMS), f \in Range(FUNCTIONS) :
              LET empty == Select(df.rows, p, f) = <<>> IN
              /\ \A k \in 1..5 : \A a \in 1..Len(figures[k].axes) :
                    /\ Cardinality(GroupLines(k, a, p, f)) = 1
                    /\ \A l \in GroupLines(k, a, p, f) :
                          LET line == figures[k].axes[a].lines[l] IN
                          /\ figures[k].axes[a].legend[l] = line.label
                          /\ empty => line.x = <<>> /\ line.y = <<>>
                          /\ (~empty /\ k <= 4) => line.x # <<>>
              /\ \A a \in 1..Len(figures[NumPlots].axes) :
                    /\ empty => GroupLines(NumPlots, a, p, f) = {}
                    /\ Len(figures[NumPlots].axes[a].legend)
                          = Len(figures[NumPlots].axes[a].lines)
              /\ ~empty => \E a \in 1..Len(figures[NumPlots].axes) :
                              GroupLines(NumPlots, a, p, f) # {}
    /\ (script = "PA01" /\ pc \in {"create_plots", "save_plots", "savefig", "summary", "done"})
          => \A i \in 1..Len(out) : out[i] \in ProgressMessages
    /\ (script = "PA01" /\ pc = "crashed") => Len(figures) = NumPlots
    /\ (script = "PA01" /\ pc = "done") => Len(pdf.pages) = NumPlots

\* C10 witness: a run that ended normally on a table in which program a has
\* cpu rows and program b has none.
C10_Witness ==
    /\ script = "PA01" /\ pc = "done" /\ Len(pdf.pages) = NumPlots
    /\ Select(df.rows, "a", "cpu") # <<>> /\ Select(df.rows, "b", "cpu") = <<>>

\* The run of PA01 reads a file that pd.read_csv cannot parse.
ParseError == script = "PA01" /\ csv.file = "malformed"

\* Message msg was printed on stream.
PrintedOn(stream, msg) == \E i \in 1..Len(out) : out[i] = <<stream, msg>>

\* C11 as stated: the process exits 0 on success and nonzero on a missing
\* file or a schema violation, and a schema or parse error writes its
\* diagnostic to standard error before the process exits.
C11_DiagnosticOnStderr ==
    /\ (script = "PA01" /\ pc = "done") => exit = "0"
    /\ (script = "PA01" /\ pc = "exited") => exit = "1"
    /\ (SchemaViolation /\ pc = "exited")
          => PrintedOn("stderr", "[ERROR] Missing required columns")
    /\ (ParseError /\ pc = "exited")
          => PrintedOn("stderr", "[ERROR] Failed to load CSV")

\* C11 amended: the process exits 0 on success and 1 on a missing file, a
\* schema violation or a parse error; the diagnostic of each of these is
\* printed to standard output before the process exits, and nothing is
\* written to standard error by load_data.
C11_DiagnosticOnStdout ==
    /\ (script = "PA01" /\ pc = "done") => exit = "0"
    /\ (script = "PA01" /\ exit = "0") => pc = "done"
    /\ (script = "PA01" /\ pc = "exited") =>
          /\ exit = "1"
          /\ csv.file = "missing" \/ SchemaViolation \/ ParseError
          /\ \A i \in 1..Len(out) : out[i][1] = "stdout"
          /\ csv.file = "missing" => out[Len(out) - 1] = <<"stdout", "[ERROR] File not found">>
          /\ SchemaViolation
                => out[Len(out)] = <<"stdout", "[ERROR] Missing required columns">>
          /\ ParseError => out[Len(out)] = <<"stdout", "[ERROR] Failed to load CSV">>
    /\ (script = "PA01" /\ (csv.file = "missing" \/ SchemaViolation \/ ParseError))
          => pc \in {"load_data", "exited"}

\* C11 witness: the run on an unparsable file, after it has exited.
C11_Witness ==
    ParseError /\ pc = "exited" /\ exit = "1" /\ out = <<Say("[ERROR] Failed to load CSV")>>

\* C12: the PDF handle is acquired only inside save_plots and is always
\* released: it is open only while save_plots is in its loop, and when the
\* run has ended, normally or by an error raised while saving a figure, a
\* handle that was opened is closed.
C12_HandleReleased ==
    script = "PA01" =>
        /\ pdf.state = "open" => pc = "savefig" /\ exit = "running"
        /\ pc \in {"load_data", "print_statistics", "create_plots", "save_plots", "exited"}
              => pdf = NoPdf
        /\ pc \in {"summary", "done"} => pdf.state = "closed" /\ pdf.pages = figures
        /\ pc = "crashed" => pdf.state \in {"absent", "closed"}
        /\ (pc = "crashed" /\ Len(figures) = NumPlots /\ Printed("[INFO] Saving plots")
              /\ pdf.state = "absent") => out[Len(out) - 1] = Say("[INFO] Saving plots")

\* C12 witness: saving the last figure raised after five pages were saved,
\* and the handle is closed.
C12_Witness ==
    script = "PA01" /\ pc = "crashed" /\ pdf.state = "closed" /\ Len(pdf.pages) = 5

====
